---- MODULE Spec2Model ----
(***************************************************************************)
(* Assets File System (va-slyusarev/afs): the process-wide registry of     *)
(* asset descriptors, the reload engine (fan-out of decode goroutines over *)
(* an unbuffered channel, collector loop, directory fill pass), the        *)
(* lookup/open/list façade and ExecTemplate.                               *)
(*                                                                         *)
(* A Go string is a sequence of byte values (0..255), so that sort.Strings,*)
(* strings.HasPrefix, filepath.Clean, base64 and zlib framing are computed *)
(* on the bytes as the code computes them.                                 *)
(***************************************************************************)
EXTENDS Integers, Sequences, FiniteSets, TLC

(***************************************************************************)
(* Strings                                                                 *)
(***************************************************************************)

\* Byte values of the characters the model's literals use.
Ascii ==
  [c \in {"/", ".", "a", "b", "c", "d", "e", "f", "h", "i", "n", "o", "s",
          "t", "u", "x", "y", "z", "l", "{", "}", "!", "r"} |->
     CASE c = "/" -> 47 [] c = "." -> 46 [] c = "!" -> 33
       [] c = "{" -> 123 [] c = "}" -> 125
       [] c = "a" -> 97 [] c = "b" -> 98 [] c = "c" -> 99 [] c = "d" -> 100
       [] c = "e" -> 101 [] c = "f" -> 102 [] c = "h" -> 104 [] c = "i" -> 105
       [] c = "n" -> 110 [] c = "o" -> 111 [] c = "r" -> 114 [] c = "s" -> 115
       [] c = "t" -> 116 [] c = "u" -> 117 [] c = "x" -> 120 [] c = "y" -> 121
       [] c = "z" -> 122 [] c = "l" -> 108]

\* A Go string literal, written as a tuple of one-character strings.
Str(cs) == [i \in 1..Len(cs) |-> Ascii[cs[i]]]

Slash == Ascii["/"]
Dot == Ascii["."]

\* strings.HasPrefix(s, prefix)
HasPrefix(s, prefix) ==
  /\ Len(s) >= Len(prefix)
  /\ SubSeq(s, 1, Len(prefix)) = prefix

\* s < t in Go's string order (bytewise lexicographic), as sort.Strings uses.
StrLess(s, t) ==
  \E k \in 0..Len(s) :
     /\ k <= Len(t)
     /\ \A i \in 1..k : s[i] = t[i]
     /\ \/ k = Len(s) /\ k < Len(t)
        \/ k < Len(s) /\ k < Len(t) /\ s[k + 1] < t[k + 1]

\* The elements of a slice s joined with sep between them.
RECURSIVE JoinSegs(_, _)
JoinSegs(segs, sep) ==
  IF segs = << >> THEN << >>
  ELSE IF Len(segs) = 1 THEN segs[1]
  ELSE segs[1] \o sep \o JoinSegs(Tail(segs), sep)

\* The segments of s between slashes (empty segments kept).
RECURSIVE SplitSlash(_)
SplitSlash(s) ==
  IF \A i \in 1..Len(s) : s[i] # Slash THEN << s >>
  ELSE LET k == CHOOSE i \in 1..Len(s) :
                  s[i] = Slash /\ \A j \in 1..(i - 1) : s[j] # Slash
       IN << SubSeq(s, 1, k - 1) >> \o SplitSlash(SubSeq(s, k + 1, Len(s)))

\* The element stack filepath.Clean keeps while it scans the segments.
RECURSIVE CleanStack(_, _, _)
CleanStack(segs, stack, rooted) ==
  IF segs = << >> THEN stack
  ELSE LET seg == Head(segs)
           rest == Tail(segs)
       IN IF seg = << >> \/ seg = << Dot >>
            THEN CleanStack(rest, stack, rooted)
          ELSE IF seg = << Dot, Dot >>
            THEN IF stack # << >> /\ stack[Len(stack)] # << Dot, Dot >>
                   THEN CleanStack(rest, SubSeq(stack, 1, Len(stack) - 1), rooted)
                 ELSE IF rooted THEN CleanStack(rest, stack, rooted)
                 ELSE CleanStack(rest, Append(stack, seg), rooted)
          ELSE CleanStack(rest, Append(stack, seg), rooted)

\* filepath.Clean / path.Clean on a slash-separated path.
Clean(p) ==
  IF p = << >> THEN << Dot >>
  ELSE LET rooted == p[1] = Slash
           stack == CleanStack(SplitSlash(p), << >>, rooted)
       IN IF rooted THEN << Slash >> \o JoinSegs(stack, << Slash >>)
          ELSE IF stack = << >> THEN << Dot >>
          ELSE JoinSegs(stack, << Slash >>)

\* filepath.Join("/", name): the non-empty elements joined by a slash, cleaned.
JoinRoot(name) ==
  IF name = << >> THEN Clean(<< Slash >>)
  ELSE Clean(<< Slash >> \o << Slash >> \o name)

\* Rooting the name without cleaning the result.
rootedUncleaned(name) == << Slash >> \o name

\* Cleaning without rooting the name first.
cleanUnrooted(name) == Clean(name)

\* fileNameClean (afs.go:148-150)
fileNameClean(name) == Clean(JoinRoot(name))

\* path.Dir(p): everything up to the last slash, cleaned.
Dir(p) ==
  LET slashes == {i \in 1..Len(p) : p[i] = Slash}
  IN IF slashes = {} THEN << Dot >>
     ELSE LET k == CHOOSE i \in slashes : \A j \in slashes : j <= i
          IN Clean(SubSeq(p, 1, k))

\* The directories above a normalized name, up to the root.
RECURSIVE Ancestors(_)
Ancestors(name) ==
  IF name = << Slash >> THEN {} ELSE {Dir(name)} \cup Ancestors(Dir(name))

(***************************************************************************)
(* Codec: base64.StdEncoding and the zlib container                        *)
(***************************************************************************)

\* The 6-bit value of a base64.StdEncoding alphabet byte, -1 for any other.
B64Val(c) ==
  IF c >= 65 /\ c <= 90 THEN c - 65
  ELSE IF c >= 97 /\ c <= 122 THEN c - 71
  ELSE IF c >= 48 /\ c <= 57 THEN c + 4
  ELSE IF c = 43 THEN 62
  ELSE IF c = 47 THEN 63
  ELSE -1

\* The alphabet byte of a 6-bit value.
B64Chr(v) ==
  IF v < 26 THEN v + 65
  ELSE IF v < 52 THEN v + 71
  ELSE IF v < 62 THEN v - 4
  ELSE IF v = 62 THEN 43
  ELSE 47

B64Pad == 61

\* base64.StdEncoding.EncodeToString: 3 bytes to 4 characters, '=' padded.
RECURSIVE B64Encode(_)
B64Encode(b) ==
  IF b = << >> THEN << >>
  ELSE IF Len(b) = 1 THEN
    << B64Chr(b[1] \div 4), B64Chr((b[1] % 4) * 16), B64Pad, B64Pad >>
  ELSE IF Len(b) = 2 THEN
    << B64Chr(b[1] \div 4), B64Chr((b[1] % 4) * 16 + (b[2] \div 16)),
       B64Chr((b[2] % 16) * 4), B64Pad >>
  ELSE
    << B64Chr(b[1] \div 4), B64Chr((b[1] % 4) * 16 + (b[2] \div 16)),
       B64Chr((b[2] % 16) * 4 + (b[3] \div 64)), B64Chr(b[3] % 64) >>
    \o B64Encode(SubSeq(b, 4, Len(b)))

\* The quanta of a text without '\r' and '\n'; ok = FALSE is CorruptInputError.
RECURSIVE B64Quanta(_)
B64Quanta(s) ==
  IF s = << >> THEN [ok |-> TRUE, out |-> << >>]
  ELSE IF Len(s) < 4 THEN [ok |-> FALSE, out |-> << >>]
  ELSE
    LET v1 == B64Val(s[1])
        v2 == B64Val(s[2])
        v3 == B64Val(s[3])
        v4 == B64Val(s[4])
        last == Len(s) = 4
        byte1 == v1 * 4 + (v2 \div 16)
        byte2 == (v2 % 16) * 16 + (v3 \div 4)
        byte3 == (v3 % 4) * 64 + v4
    IN IF v1 < 0 \/ v2 < 0 THEN [ok |-> FALSE, out |-> << >>]
       ELSE IF v3 >= 0 /\ v4 >= 0 THEN
         LET rest == B64Quanta(SubSeq(s, 5, Len(s)))
         IN [ok |-> rest.ok, out |-> << byte1, byte2, byte3 >> \o rest.out]
       ELSE IF last /\ s[3] = B64Pad /\ s[4] = B64Pad THEN
         [ok |-> TRUE, out |-> << byte1 >>]
       ELSE IF last /\ v3 >= 0 /\ s[4] = B64Pad THEN
         [ok |-> TRUE, out |-> << byte1, byte2 >>]
       ELSE [ok |-> FALSE, out |-> << >>]

\* base64.StdEncoding.DecodeString (afs.go:177)
B64Decode(s) ==
  B64Quanta(SelectSeq(s, LAMBDA c : c # 10 /\ c # 13))

\* hash/adler32 over b, from the running sums a and c.
RECURSIVE Adler(_, _, _)
Adler(b, a, c) ==
  IF b = << >> THEN c * 65536 + a
  ELSE LET a2 == (a + Head(b)) % 65521
       IN Adler(Tail(b), a2, (c + a2) % 65521)

Adler32(b) == Adler(b, 1, 0)

\* A 32-bit value as 4 big-endian bytes.
BE32(v) ==
  << v \div 16777216, (v \div 65536) % 256, (v \div 256) % 256, v % 256 >>

\* The zlib stream the generator's zlib.NewWriter/Write/Close yields for data
\* (cmd/afs.go:214-221), in the container's stored-block form: the 2-byte
\* header, one final stored deflate block (LEN, NLEN, the bytes) and the
\* Adler-32 of the data.  Huffman-coded blocks are not modelled.
ZlibCompress(data) ==
  << 120, 156 >>
  \o << 1, Len(data) % 256, Len(data) \div 256,
        255 - (Len(data) % 256), 255 - (Len(data) \div 256) >>
  \o data
  \o BE32(Adler32(data))

\* The deflate blocks of b: ok = FALSE is a corrupt or truncated stream; rest
\* is what follows the final block.
RECURSIVE Inflate(_)
Inflate(b) ==
  IF Len(b) < 5 THEN [ok |-> FALSE, out |-> << >>, rest |-> << >>]
  ELSE
    LET final == b[1] % 2 = 1
        btype == (b[1] \div 2) % 4
        n == b[2] + 256 * b[3]
        nn == b[4] + 256 * b[5]
    IN IF btype # 0 \/ n + nn # 65535 \/ Len(b) < 5 + n
         THEN [ok |-> FALSE, out |-> << >>, rest |-> << >>]
       ELSE IF final
         THEN [ok |-> TRUE, out |-> SubSeq(b, 6, 5 + n),
               rest |-> SubSeq(b, 6 + n, Len(b))]
       ELSE LET more == Inflate(SubSeq(b, 6 + n, Len(b)))
            IN [ok |-> more.ok, out |-> SubSeq(b, 6, 5 + n) \o more.out,
                rest |-> more.rest]

\* zlib.NewReader (afs.go:187): the header check.
ZlibHeaderOk(b) ==
  /\ Len(b) >= 2
  /\ b[1] % 16 = 8
  /\ b[1] \div 16 <= 7
  /\ (b[1] * 256 + b[2]) % 31 = 0
  /\ (b[2] \div 32) % 2 = 0

\* io.Copy(z, r) over the zlib reader (afs.go:194): the inflated bytes, an
\* error on a corrupt block, a truncated stream or a checksum mismatch.
ZlibRead(b) ==
  LET blocks == Inflate(SubSeq(b, 3, Len(b)))
  IN IF ~blocks.ok THEN [ok |-> FALSE, out |-> << >>]
     ELSE IF Len(blocks.rest) < 4 THEN [ok |-> FALSE, out |-> << >>]
     ELSE IF SubSeq(blocks.rest, 1, 4) # BE32(Adler32(blocks.out))
       THEN [ok |-> FALSE, out |-> << >>]
     ELSE [ok |-> TRUE, out |-> blocks.out]

\* The body of one decode goroutine (afs.go:174-209): the result it sends on
\* the channel for a registered asset.  err = TRUE stands for the three error
\* sends (afs.go:179, 189, 197), err = FALSE for the materialized asset.
Decode(asset) ==
  LET name == fileNameClean(asset.AName)
      b64 == B64Decode(asset.Base64)
  IN IF ~b64.ok THEN [err |-> TRUE, AName |-> name, content |-> << >>]
     ELSE IF asset.NoZLib
       THEN [err |-> FALSE, AName |-> name, content |-> b64.out]
     ELSE IF ~ZlibHeaderOk(b64.out)
       THEN [err |-> TRUE, AName |-> name, content |-> << >>]
     ELSE LET z == ZlibRead(b64.out)
          IN IF ~z.ok THEN [err |-> TRUE, AName |-> name, content |-> << >>]
             ELSE [err |-> FALSE, AName |-> name, content |-> z.out]

\* A generator that writes the compress flag itself into NoZLib.
makeAssetFlagAsIs(name, data, compress) ==
  [AName |-> JoinRoot(name),
   Base64 |-> IF compress THEN B64Encode(ZlibCompress(data)) ELSE B64Encode(data),
   NoZLib |-> compress]

\* makeAsset (cmd/afs.go:203-232): the descriptor the generator emits.
makeAsset(name, data, compress) ==
  [AName |-> JoinRoot(name),
   Base64 |-> IF compress THEN B64Encode(ZlibCompress(data)) ELSE B64Encode(data),
   NoZLib |-> ~compress]

(***************************************************************************)
(* text/template, the fragment the assets use                              *)
(***************************************************************************)

LeftDelim == Str(<< "{", "{" >>)
RightDelim == Str(<< "}", "}" >>)

\* The first index at or after i where sub starts in s, 0 when there is none.
IndexFrom(s, sub, i) ==
  LET hits == {k \in i..(Len(s) - Len(sub) + 1) :
                  SubSeq(s, k, k + Len(sub) - 1) = sub}
  IN IF hits = {} THEN 0 ELSE CHOOSE k \in hits : \A j \in hits : k <= j

\* template.New(name).Parse(text) then Execute(buf, data) (afs.go:101-109) for
\* data = map[string]bool{"use": use}: text outside {{ }} is copied, the
\* action {{.use}} prints the value; an unclosed action is a parse error.
\* Other actions are outside the modelled fragment and reported as an error.
RECURSIVE Render(_, _)
Render(text, use) ==
  LET open == IndexFrom(text, LeftDelim, 1)
  IN IF open = 0 THEN [ok |-> TRUE, out |-> text]
     ELSE LET close == IndexFrom(text, RightDelim, open + 2)
          IN IF close = 0 THEN [ok |-> FALSE, out |-> << >>]
             ELSE IF SubSeq(text, open + 2, close - 1) # Str(<< ".", "u", "s", "e" >>)
               THEN [ok |-> FALSE, out |-> << >>]
             ELSE LET rest == Render(SubSeq(text, close + 2, Len(text)), use)
                      val == IF use THEN Str(<< "t", "r", "u", "e" >>)
                             ELSE Str(<< "f", "a", "l", "s", "e" >>)
                  IN [ok |-> rest.ok,
                      out |-> SubSeq(text, 1, open - 1) \o val \o rest.out]

(***************************************************************************)
(* Inputs                                                                  *)
(***************************************************************************)

\* Longest registry explored.
MaxAssets == 3
\* The two http.File variables of the file-serving host.
Slots == {"h1", "h2"}
\* Decode goroutines left blocked by failed reloads before no further reload
\* is explored.
MaxOrphans == 1
\* Length of the buffer the host reads into.
BufLen == 2
\* Longest file content the generator is run on.
MaxData == 3
\* Longest name normalized on its own.
MaxPath == 4

NameA == Str(<< "/", "a", ".", "t", "x", "t" >>)
NameBC == Str(<< "/", "b", "/", "c", ".", "t", "x", "t" >>)
NameB == Str(<< "/", "b" >>)
NameDeep == Str(<< "/", "a", "/", "e", "/", "f" >>)
Root == << Slash >>

\* Scenario A's two assets, as the generator emits them.
AssetA == makeAsset(Str(<< "a", ".", "t", "x", "t" >>), Str(<< "h", "i" >>), FALSE)
AssetBC ==
  makeAsset(Str(<< "b", "/", "c", ".", "t", "x", "t" >>), Str(<< "y", "o" >>), TRUE)
\* A runtime-added asset with a relative name that normalizes to /a.txt and a
\* template as content.
AssetTpl ==
  [AName |-> Str(<< "a", ".", "t", "x", "t" >>),
   Base64 |-> B64Encode(Str(<< "{", "{", ".", "u", "s", "e", "}", "}" >>)),
   NoZLib |-> TRUE]
\* A file two directories deep, whose top directory /a is a string prefix of
\* /a.txt; its content is a template with an action left open.
AssetDeep == makeAsset(Str(<< "a", "/", "e", "/", "f" >>), Str(<< "{", "{" >>), TRUE)
\* Text that is not base64.
AssetBad64 ==
  [AName |-> Str(<< "/", "x" >>), Base64 |-> Str(<< "!", "!", "!", "!" >>),
   NoZLib |-> TRUE]
\* A zlib stream cut short of its checksum.
AssetBadZ ==
  LET z == ZlibCompress(Str(<< "y", "o" >>))
  IN [AName |-> Str(<< "/", "z" >>), Base64 |-> B64Encode(SubSeq(z, 1, Len(z) - 2)),
      NoZLib |-> FALSE]

\* The *Asset values the program registers, by the name of the variable that
\* holds each.
Descriptors ==
  [A |-> AssetA, Bad64 |-> AssetBad64, BC |-> AssetBC, Tpl |-> AssetTpl,
   Deep |-> AssetDeep, BadZ |-> AssetBadZ]

\* What the decode goroutine of each of them sends (afs.go:174-209).
Decoded == [id \in DOMAIN Descriptors |-> Decode(Descriptors[id])]

\* The descriptors a run draws from, in the order they can be registered
\* (each at most once, later ones after earlier ones).
Pool == << "A", "Bad64", "BC", "Tpl", "Deep", "BadZ" >>

\* The descriptors of the runs that follow the host's handles.
HostPool == << "A", "Bad64" >>

\* Names callers look up: differently spelled, present and absent.
LookupNames ==
  {NameA, Str(<< "a", ".", "t", "x", "t" >>),
   Str(<< "/", "x", "/", ".", ".", "/", "a", ".", "t", "x", "t" >>),
   NameBC, NameB, Root, Str(<< "/", "a" >>), Str(<< "/", "n", "o" >>)}

\* Names the host opens.
OpenNames ==
  {NameA, Str(<< "a", ".", "t", "x", "t" >>),
   Str(<< "/", "x", "/", ".", ".", "/", "a", ".", "t", "x", "t" >>),
   Root, Str(<< "/", "n", "o" >>)}

\* The name lists ExecTemplate is called with.
TemplateCalls ==
  {<< NameA >>,
   << Str(<< "a", ".", "t", "x", "t" >>), NameBC >>,
   << NameA, NameB >>,
   << NameA, NameDeep >>,
   << Str(<< "/", "n", "o" >>) >>}

(***************************************************************************)
(* State                                                                   *)
(***************************************************************************)

VARIABLES
  avail,      \* the descriptors the program has yet to register, in order
  assets,     \* var assets []*Asset (afs.go:46): the registered descriptors, by pointer
  created,    \* once.Do(onceAFS) has run: assetFileSystem is not nil
  afsAssets,  \* afs.assets: name -> the *Asset it maps to (an object identity)
  heap,       \* the Asset objects reachable from afs.assets or from a handle
  mu,         \* afs.mu is locked
  pc,         \* where the caller of reload is: "idle", "collect", "dirs"
  gen,        \* the generation that tags the objects the running reload makes
  spawned,    \* decode goroutines the spawner has started (afs.go:169-211)
  task,       \* per descriptor: "none", "ready" (at its send), "done"
  closed,     \* close(ch) has run (afs.go:215)
  iter,       \* keys the range of the fill-dirs loop may still produce
  orphans,    \* decode goroutines of returned reloads whose send has no receiver
  handles,    \* the http.File values the host holds, by slot
  ret,        \* the last call of the main goroutine and what it returned
  pre,        \* what afs.assets held when the last reload was entered
  fatal,      \* the runtime has stopped the process (concurrent map access)
  job         \* the value a stand-alone run of one function works on

vars ==
  << avail, assets, created, afsAssets, heap, mu, pc, gen, spawned, task, closed, iter,
     orphans, handles, ret, pre, fatal, job >>

\* No stand-alone run.
NoJob == [stage |-> "none"]

\* A nil *Asset.
None == [gen |-> -1, idx |-> 0, dir |-> << >>]

\* A nil io.ReadSeeker, and strings.NewReader(s).
NoReader == [open |-> FALSE, s |-> << >>, i |-> 0]
NewReader(s) == [open |-> TRUE, s |-> s, i |-> 0]

\* A map without entries (nil or freshly made).
EmptyMap == [n \in {} |-> None]

\* m[k] = v
Put(m, k, v) == [n \in DOMAIN m \cup {k} |-> IF n = k THEN v ELSE m[n]]

Range(f) == {f[x] : x \in DOMAIN f}

\* What stays allocated: the objects a map entry or a handle points to.
Live(h, m, hs) ==
  [id \in (Range(m) \cup (Range(hs) \ {None})) \cap DOMAIN h |-> h[id]]

\* The snapshot as a reader sees it: per name, the served fields of its asset.
View(m, h) ==
  [n \in DOMAIN m |->
     [AName |-> h[m[n]].AName, isDir |-> h[m[n]].isDir,
      content |-> h[m[n]].content, size |-> h[m[n]].size]]

Snapshot == View(afsAssets, heap)

\* AFS.Belong (afs.go:83-87)
Belong(m, name) == fileNameClean(name) \in DOMAIN m

\* AFS.asset (afs.go:138-145): the asset, or None for os.ErrNotExist.
asset(m, name) ==
  IF fileNameClean(name) \in DOMAIN m THEN m[fileNameClean(name)] ELSE None

\* s with x inserted where sort.Strings puts it.
RECURSIVE SortStrings(_)
SortStrings(S) ==
  IF S = {} THEN << >>
  ELSE LET least == CHOOSE x \in S : \A y \in S \ {x} : StrLess(x, y)
       IN << least >> \o SortStrings(S \ {least})

\* Files without its sort: the names in some other order.
FilesUnsorted(m) ==
  LET f == SortStrings(DOMAIN m)
  IN [i \in 1..Len(f) |-> f[Len(f) + 1 - i]]

\* AFS.Files (afs.go:73-80)
Files(m) == SortStrings(DOMAIN m)

\* Asset.Readdir (afs.go:265-277) on the asset id: the names of the assets it
\* returns (it reads the map of the package-level assetFileSystem).
Readdir(m, h, id) ==
  IF ~h[id].isDir THEN {}
  ELSE {name \in DOMAIN m :
          HasPrefix(name, h[id].AName) /\ Len(name) > Len(h[id].AName)}

Start(pool) ==
  /\ avail = pool
  /\ assets = << >>
  /\ created = FALSE
  /\ afsAssets = EmptyMap
  /\ heap = EmptyMap
  /\ mu = FALSE
  /\ pc = "idle"
  /\ gen = 0
  /\ spawned = 0
  /\ task = << >>
  /\ closed = FALSE
  /\ iter = {}
  /\ orphans = 0
  /\ handles = [s \in Slots |-> None]
  /\ ret = [op |-> "none", err |-> FALSE, done |-> TRUE, why |-> ""]
  /\ pre = EmptyMap
  /\ fatal = FALSE

Init == Start(Pool) /\ job = NoJob

(***************************************************************************)
(* Registry and reload                                                     *)
(***************************************************************************)

\* A registry that holds only what was registered last.
Replaced(regs, a) == << a >>

\* assets = append(assets, a...) (afs.go:56, 68)
Appended(regs, a) == Append(regs, a)

\* Register (afs.go:55-57) of the descriptor avail[i], called by generated
\* init code or by the application between its other calls.
Register(i) ==
  /\ ~fatal /\ pc = "idle"
  /\ Len(assets) < MaxAssets
  /\ i \in DOMAIN avail
  /\ assets' = Appended(assets, avail[i])
  /\ avail' = SubSeq(avail, i + 1, Len(avail))
  /\ ret' = [op |-> "Register", err |-> FALSE, done |-> TRUE, why |-> ""]
  /\ UNCHANGED << created, afsAssets, heap, mu, pc, gen, spawned, task, closed,
                  iter, orphans, handles, pre, fatal, job >>

\* A reload that writes into the objects of the snapshot it replaces.
StaleGen == gen

\* A generation no object held by a handle carries.
FreshGen ==
  CHOOSE g \in 0..Cardinality(Slots) :
    /\ \A s \in DOMAIN handles : handles[s].gen # g
    /\ \A k \in 0..(g - 1) : \E s \in DOMAIN handles : handles[s].gen = k

\* reload without its check for an empty registry.
NoDataUnchecked(regs) == FALSE

\* len(assets) == 0 (afs.go:156)
NoData(regs) == Len(regs) = 0

\* AFS.reload up to the collector loop (afs.go:153-219), entered by op with
\* the registry regs: Lock, the empty check, the channel and the spawner
\* goroutine, and the new map.
reloadEnter(op, regs) ==
  /\ pre' = Snapshot
  /\ IF NoData(regs)
       THEN /\ ret' = [op |-> op, err |-> TRUE, done |-> TRUE, why |-> "no data"]
            /\ UNCHANGED << afsAssets, heap, mu, pc, gen, spawned, task, closed,
                            iter >>
       ELSE /\ mu' = TRUE
            /\ pc' = "collect"
            /\ gen' = FreshGen
            /\ spawned' = 0
            /\ task' = [i \in 1..Len(regs) |-> "none"]
            /\ closed' = FALSE
            /\ afsAssets' = EmptyMap
            /\ heap' = Live(heap, EmptyMap, handles)
            /\ ret' = [op |-> op, err |-> FALSE, done |-> FALSE, why |-> ""]
            /\ UNCHANGED iter

\* GetAFS (afs.go:60-64).  The guard on orphans only bounds the exploration.
GetAFS ==
  /\ ~fatal /\ pc = "idle" /\ ~mu
  /\ orphans < MaxOrphans
  /\ created' = TRUE
  /\ reloadEnter("GetAFS", assets)
  /\ UNCHANGED << avail, assets, orphans, handles, fatal, job >>

\* AFS.Add (afs.go:67-70) of the descriptor avail[i].  The guards on orphans
\* and on the length of the registry only bound the exploration.
Add(i) ==
  /\ ~fatal /\ pc = "idle" /\ ~mu
  /\ created
  /\ orphans < MaxOrphans
  /\ Len(assets) < MaxAssets
  /\ i \in DOMAIN avail
  /\ assets' = Appended(assets, avail[i])
  /\ avail' = SubSeq(avail, i + 1, Len(avail))
  /\ reloadEnter("Add", assets')
  /\ UNCHANGED << created, orphans, handles, fatal, job >>

\* The spawner goroutine starts the decode goroutine of the next descriptor
\* (afs.go:169-211); the goroutine runs to its send on ch.
Spawn ==
  /\ ~fatal /\ pc = "collect"
  /\ spawned < Len(assets)
  /\ spawned' = spawned + 1
  /\ task' = [task EXCEPT ![spawned + 1] = "ready"]
  /\ UNCHANGED << avail, assets, created, afsAssets, heap, mu, pc, gen, closed, iter,
                  orphans, handles, ret, pre, fatal, job >>

\* A reload that keeps what the snapshot already held under the name.
MaterializedKept(r) ==
  [AName |-> r.AName, isDir |-> FALSE,
   content |-> IF r.AName \in DOMAIN pre THEN pre[r.AName].content ELSE r.content,
   size |-> IF r.AName \in DOMAIN pre THEN pre[r.AName].size ELSE Len(r.content),
   rd |-> NoReader]

\* A decode goroutine that stores the name without its leading slash.
MaterializedUnrooted(r) ==
  [AName |-> Tail(r.AName), isDir |-> FALSE, content |-> r.content,
   size |-> Len(r.content), rd |-> NoReader]

\* The Asset a decode goroutine builds (afs.go:204-209).
Materialized(r) ==
  [AName |-> r.AName, isDir |-> FALSE, content |-> r.content,
   size |-> Len(r.content), rd |-> NoReader]

\* A collector that takes every result for an asset.
FailedIgnored(r) == FALSE

\* a.err != nil (afs.go:221)
Failed(r) == r.err

\* One turn of the collector loop (afs.go:220-225): decode goroutine i hands
\* over its result on the unbuffered channel.  An error returns from reload
\* (the deferred Unlock runs); whoever has not delivered stays at its send.
Recv(i) ==
  /\ ~fatal /\ pc = "collect"
  /\ i \in DOMAIN task /\ task[i] = "ready"
  /\ LET r == Decoded[assets[i]]
         id == [gen |-> gen, idx |-> i, dir |-> << >>]
     IN IF Failed(r)
          THEN /\ pc' = "idle"
               /\ mu' = FALSE
               /\ ret' = [ret EXCEPT !.err = TRUE, !.done = TRUE, !.why = "decode"]
               /\ orphans' =
                    orphans + Cardinality({j \in DOMAIN task : j # i /\ task[j] # "done"})
               /\ task' = << >>
               /\ spawned' = 0
               /\ UNCHANGED << afsAssets, heap >>
          ELSE /\ afsAssets' = Put(afsAssets, r.AName, id)
               /\ heap' = Live(Put(heap, id, Materialized(r)), afsAssets', handles)
               /\ task' = [task EXCEPT ![i] = "done"]
               /\ UNCHANGED << pc, mu, ret, orphans, spawned >>
  /\ UNCHANGED << avail, assets, created, gen, closed, iter, handles, pre, fatal, job >>

\* A closer that does not wait for the decode goroutines.
JoinedEarly == TRUE

\* A wait that no wg.Done ever ends.
JoinedNever == FALSE

\* wg.Wait() returns (afs.go:214): every decode goroutine has run its deferred
\* wg.Done (afs.go:173), which it does after its send.
Joined == \A i \in DOMAIN task : task[i] = "done"

\* The closer goroutine (afs.go:213-216): wg.Wait returns once every decode
\* goroutine has run wg.Done, then close(ch).
Close ==
  /\ ~fatal /\ pc = "collect"
  /\ ~closed
  /\ spawned = Len(assets)
  /\ Joined
  /\ closed' = TRUE
  /\ UNCHANGED << avail, assets, created, afsAssets, heap, mu, pc, gen, spawned, task,
                  orphans, iter, handles, ret, pre, fatal, job >>

\* The range over ch ends on the closed channel; the fill-dirs range starts
\* (afs.go:228).
RangeDone ==
  /\ ~fatal /\ pc = "collect"
  /\ closed
  /\ pc' = "dirs"
  /\ iter' = DOMAIN afsAssets
  /\ UNCHANGED << avail, assets, created, afsAssets, heap, mu, gen, spawned, task,
                  closed, orphans, handles, ret, pre, fatal, job >>

\* The directory Asset of the fill-dirs loop (afs.go:232).
DirAsset(dir) ==
  [AName |-> dir, isDir |-> TRUE, content |-> dir, size |-> Len(dir),
   rd |-> NoReader]

\* One turn of the fill-dirs loop (afs.go:228-234) on key k.  An entry
\* created during a range over a map may be produced later in that range or
\* skipped: visit says which.
FillDir(k, visit) ==
  /\ ~fatal /\ pc = "dirs"
  /\ k \in iter
  /\ LET dir == Dir(heap[afsAssets[k]].AName)
         id == [gen |-> gen, idx |-> 0, dir |-> dir]
     IN IF ~Belong(afsAssets, dir)
          THEN /\ afsAssets' = Put(afsAssets, dir, id)
               /\ heap' = Put(heap, id, DirAsset(dir))
               /\ iter' = (iter \ {k}) \cup (IF visit THEN {dir} ELSE {})
          ELSE /\ visit
               /\ iter' = iter \ {k}
               /\ UNCHANGED << afsAssets, heap >>
  /\ UNCHANGED << avail, assets, created, mu, pc, gen, spawned, task, closed, orphans,
                  handles, ret, pre, fatal, job >>

\* reload returns nil (afs.go:235); the deferred Unlock runs.
ReloadReturn ==
  /\ ~fatal /\ pc = "dirs"
  /\ iter = {}
  /\ pc' = "idle"
  /\ mu' = FALSE
  /\ ret' = [ret EXCEPT !.done = TRUE]
  /\ task' = << >>
  /\ spawned' = 0
  /\ closed' = FALSE
  /\ UNCHANGED << avail, assets, created, afsAssets, heap, gen, iter, orphans, handles,
                  pre, fatal, job >>

(***************************************************************************)
(* ExecTemplate                                                            *)
(***************************************************************************)

\* An ExecTemplate that renders directory entries like files.
IsDirIgnored(a) == FALSE

\* asset.isDir (afs.go:97)
IsDirAsset(a) == a.isDir

\* What the loop of ExecTemplate returns: the objects, whether it returned an
\* error and which one ("find asset", "asset is dir", "parse").
Returned(h, why) == [err |-> why # "", why |-> why, heap |-> h]

\* A loop that gives back the objects h0 it started from when it fails.
RECURSIVE execTry(_, _, _, _, _)
execTry(names, use, m, h, h0) ==
  IF names = << >> THEN Returned(h, "")
  ELSE LET a == asset(m, Head(names))
       IN IF a = None THEN Returned(h0, "find asset")
          ELSE IF IsDirAsset(h[a]) THEN Returned(h0, "asset is dir")
          ELSE LET out == Render(h[a].content, use)
               IN IF ~out.ok THEN Returned(h0, "parse")
                  ELSE execTry(Tail(names), use, m,
                               [h EXCEPT ![a].content = out.out,
                                         ![a].size = Len(out.out)], h0)

\* An ExecTemplate that changes nothing unless every name succeeds.
execLoopAtomic(names, use, m, h) == execTry(names, use, m, h, h)

\* The loop of ExecTemplate (afs.go:92-114) over names on the objects h: each
\* name in turn is looked up (93-96), refused when a directory (97-99), parsed
\* and executed (101-109) and overwritten in place (111-112); the first error
\* returns.
RECURSIVE execLoop(_, _, _, _)
execLoop(names, use, m, h) ==
  IF names = << >> THEN Returned(h, "")
  ELSE LET a == asset(m, Head(names))
       IN IF a = None THEN Returned(h, "find asset")
          ELSE IF IsDirAsset(h[a]) THEN Returned(h, "asset is dir")
          ELSE LET out == Render(h[a].content, use)
               IN IF ~out.ok THEN Returned(h, "parse")
                  ELSE execLoop(Tail(names), use, m,
                                [h EXCEPT ![a].content = out.out,
                                          ![a].size = Len(out.out)])

\* AFS.ExecTemplate (afs.go:91-116) with data = map[string]bool{"use": use}.
ExecTemplate(names, use) ==
  /\ ~fatal /\ pc = "idle"
  /\ created
  /\ LET r == execLoop(names, use, afsAssets, heap)
     IN /\ heap' = r.heap
        /\ ret' = [op |-> "ExecTemplate", err |-> r.err, done |-> TRUE, why |-> r.why]
  /\ UNCHANGED << avail, assets, created, afsAssets, mu, pc, gen, spawned, task, closed,
                  iter, orphans, handles, pre, fatal, job >>

(***************************************************************************)
(* The file-serving host: Open and the handle it gets                      *)
(***************************************************************************)

\* The Asset after Open has given it a reader (afs.go:244).
Opened(a) == [a EXCEPT !.rd = NewReader(a.content)]

\* AFS.Open (afs.go:239-246) by the host goroutine into its slot.  Open takes
\* no lock: it runs at any point of a reload.
Open(slot, name) ==
  /\ ~fatal
  /\ created
  /\ LET a == asset(afsAssets, name)
     IN IF a = None
          THEN /\ handles' = [handles EXCEPT ![slot] = None]
               /\ heap' = Live(heap, afsAssets, handles')
          ELSE /\ handles' = [handles EXCEPT ![slot] = a]
               /\ heap' = Live([heap EXCEPT ![a] = Opened(heap[a])], afsAssets, handles')
  /\ UNCHANGED << avail, assets, created, afsAssets, mu, pc, gen, spawned, task, closed,
                  iter, orphans, ret, pre, fatal, job >>

\* The map is read while reload writes it (afs.go:224, 232 against 140): the
\* runtime may stop the process with "concurrent map read and map write".
OpenRace ==
  /\ ~fatal
  /\ created
  /\ pc \in {"collect", "dirs"}
  /\ fatal' = TRUE
  /\ UNCHANGED << avail, assets, created, afsAssets, heap, mu, pc, gen, spawned, task,
                  closed, iter, orphans, handles, ret, pre, job >>

\* Where the handle in slot reads next: the position of the strings.Reader
\* embedded in the Asset it points to.
Pos(h, hs, slot) == h[hs[slot]].rd.i

\* Where a strings.Reader stands after Read into a buffer of BufLen bytes.
Advance(rd) == IF rd.i + BufLen > Len(rd.s) THEN Len(rd.s) ELSE rd.i + BufLen

\* strings.Reader.Read through the handle in slot (at the end it returns
\* io.EOF and moves nothing).
Read(slot) ==
  /\ ~fatal
  /\ handles[slot] # None
  /\ LET rd == heap[handles[slot]].rd
     IN /\ rd.i < Len(rd.s)
        /\ heap' = [heap EXCEPT ![handles[slot]].rd.i = Advance(rd)]
  /\ UNCHANGED << avail, assets, created, afsAssets, mu, pc, gen, spawned, task, closed,
                  iter, orphans, handles, ret, pre, fatal, job >>

\* strings.Reader.Seek(0, io.SeekStart) through the handle in slot.
Seek(slot) ==
  /\ ~fatal
  /\ handles[slot] # None
  /\ heap[handles[slot]].rd.i # 0
  /\ heap' = [heap EXCEPT ![handles[slot]].rd.i = 0]
  /\ UNCHANGED << avail, assets, created, afsAssets, mu, pc, gen, spawned, task, closed,
                  iter, orphans, handles, ret, pre, fatal, job >>

\* The registry, the reload engine and ExecTemplate.
Next ==
  \/ \E i \in 1..Len(Pool) : Register(i)
  \/ GetAFS
  \/ \E i \in 1..Len(Pool) : Add(i)
  \/ Spawn
  \/ \E i \in 1..MaxAssets : Recv(i)
  \/ Close
  \/ RangeDone
  \/ \E k \in iter, visit \in BOOLEAN : FillDir(k, visit)
  \/ ReloadReturn
  \/ \E names \in TemplateCalls, use \in BOOLEAN : ExecTemplate(names, use)

Spec == Init /\ [][Next]_vars

\* The fill-dirs loop can take a turn: FillDir is enabled for every key left
\* in iter.
CanFillDir == ~fatal /\ pc = "dirs" /\ iter # {}

\* The Go scheduler runs every goroutine that can take a step: the spawner,
\* the decode goroutines at their sends together with the collector at its
\* receive, the closer, and the caller of reload in its two loops.  The
\* condition on FillDir is weak fairness written out, with CanFillDir for
\* ENABLED <<FillDir>>_vars.
Scheduled ==
  /\ WF_vars(Spawn)
  /\ WF_vars(\E i \in 1..MaxAssets : Recv(i))
  /\ WF_vars(Close)
  /\ WF_vars(RangeDone)
  /\ \/ []<>~CanFillDir
     \/ []<><<\E k \in iter, visit \in BOOLEAN : FillDir(k, visit)>>_vars
  /\ WF_vars(ReloadReturn)

SpecLive == Init /\ [][Next]_vars /\ Scheduled

\* The same, with the host goroutine opening and reading files meanwhile.
InitHost == Start(HostPool) /\ job = NoJob

NextHost ==
  \/ \E i \in 1..Len(Pool) : Register(i)
  \/ GetAFS
  \/ \E i \in 1..Len(Pool) : Add(i)
  \/ Spawn
  \/ \E i \in 1..MaxAssets : Recv(i)
  \/ Close
  \/ RangeDone
  \/ \E k \in iter, visit \in BOOLEAN : FillDir(k, visit)
  \/ ReloadReturn
  \/ \E slot \in Slots, name \in OpenNames : Open(slot, name)
  \/ OpenRace
  \/ \E slot \in Slots : Read(slot)
  \/ \E slot \in Slots : Seek(slot)

SpecHost == InitHost /\ [][NextHost]_vars

(***************************************************************************)
(* Stand-alone runs: the generator against the decoder, and fileNameClean  *)
(***************************************************************************)

\* The variables of the running program, which a stand-alone run leaves alone.
program ==
  << avail, assets, created, afsAssets, heap, mu, pc, gen, spawned, task, closed, iter,
     orphans, handles, ret, pre, fatal >>

\* The sequences over S of length at most n.
SeqsUpTo(S, n) == UNION {[1..k -> S] : k \in 0..n}

\* Bytes of file contents: NUL, newline, 'h', and two with the high bit set.
DataBytes == {0, 10, Ascii["h"], 200, 255}

\* The generator is about to run makeAsset on a file holding data, with its
\* flag -z set to compress.
InitCodec ==
  /\ Start(<< >>)
  /\ job \in [stage : {"file"}, data : SeqsUpTo(DataBytes, MaxData), compress : BOOLEAN]

\* makeAsset (cmd/afs.go:203-232) on the file.
Generate ==
  /\ job.stage = "file"
  /\ job' = [stage |-> "asset", data |-> job.data, compress |-> job.compress,
             asset |-> makeAsset(Str(<< "a", ".", "t", "x", "t" >>), job.data,
                                 job.compress)]
  /\ UNCHANGED program

\* The body of the decode goroutine (afs.go:174-209) on the generated asset.
DecodeAsset ==
  /\ job.stage = "asset"
  /\ job' = [stage |-> "decoded", data |-> job.data, compress |-> job.compress,
             asset |-> job.asset, out |-> Decode(job.asset)]
  /\ UNCHANGED program

NextCodec == Generate \/ DecodeAsset

SpecCodec == InitCodec /\ [][NextCodec]_vars

\* Bytes of names: the separator, the dot and two letters.
PathBytes == {Slash, Dot, Ascii["a"], Ascii["b"]}

\* A caller is about to pass the name p to the package.
InitPath ==
  /\ Start(<< >>)
  /\ job \in [stage : {"name"}, p : SeqsUpTo(PathBytes, MaxPath)]

\* fileNameClean on the caller's name (afs.go:139, 175).
Normalize ==
  /\ job.stage = "name"
  /\ job' = [stage |-> "once", p |-> job.p, q |-> fileNameClean(job.p)]
  /\ UNCHANGED program

\* fileNameClean on a name that is already a key, as when a name from Files
\* is passed to Open or ExecTemplate (afs.go:139).
NormalizeAgain ==
  /\ job.stage = "once"
  /\ job' = [stage |-> "twice", p |-> job.p, q |-> job.q, r |-> fileNameClean(job.q)]
  /\ UNCHANGED program

NextPath == Normalize \/ NormalizeAgain

SpecPath == InitPath /\ [][NextPath]_vars

(***************************************************************************)
(* Properties                                                              *)
(***************************************************************************)

\* The last call of the main goroutine was a reload and it has returned.
Reloaded == ret.op \in {"GetAFS", "Add"} /\ ret.done

ReloadedOk == Reloaded /\ ~ret.err

\* The descriptors of the pool that do not decode.
Corrupt == {"Bad64", "BadZ"}

\* C1: all-or-nothing reload.  When a reload of a non-empty registry has
\* returned an error, the snapshot is the one the reload was entered with.
C1_AllOrNothing ==
  (Reloaded /\ ret.err /\ Len(assets) > 0) => Snapshot = pre

\* C2: directory inference totality.  After a successful reload every
\* ancestor directory of every entry is an entry, and is a directory.
C2_DirTotality ==
  ReloadedOk =>
    \A n \in DOMAIN afsAssets : \A d \in Ancestors(n) :
       d \in DOMAIN afsAssets /\ heap[afsAssets[d]].isDir

\* What a handle step of the host does: Open into the slot, or Read or Seek
\* through it.
HandleStep(slot) ==
  \/ \E name \in OpenNames : Open(slot, name)
  \/ Read(slot)
  \/ Seek(slot)

\* C3: independent read cursors.  After a successful reload, and with no
\* reload running, a step on one handle leaves the position of every other
\* handle on the current snapshot as it was.
C3_IndependentCursors ==
  [][\A slot \in Slots :
       (HandleStep(slot) /\ ReloadedOk) =>
          \A other \in Slots \ {slot} :
             (handles[other] # None /\ handles[other] \in Range(afsAssets)) =>
                Pos(heap', handles', other) = Pos(heap, handles, other)]_vars

\* C4: reads are atomic with respect to reload.  An Open that runs while the
\* lock is held reads the map the reload was entered with.
C4_ReadsWaitForReload ==
  [][(\E slot \in Slots, name \in OpenNames : Open(slot, name)) =>
        (~mu \/ Snapshot = pre)]_vars

\* C5: a reload of a non-empty registry returns an error exactly when one of
\* the registered descriptors is corrupt.
C5_ErrorIffCorrupt ==
  (Reloaded /\ Len(assets) > 0) =>
     (ret.err <=> \E i \in DOMAIN assets : assets[i] \in Corrupt)

\* A reload has failed after a valid asset was aggregated.
C5_Witness ==
  /\ Reloaded /\ ret.err
  /\ \E i \in DOMAIN assets : assets[i] \in Corrupt
  /\ DOMAIN afsAssets # {}

\* C6: with an empty registry reload returns an error at once: no decode
\* goroutine, the lock released, the filesystem still without any name.
C6_EmptyRegistry ==
  /\ Len(assets) = 0 =>
       /\ pc = "idle" /\ ~mu /\ spawned = 0 /\ task = << >> /\ orphans = 0
       /\ afsAssets = EmptyMap
       /\ Files(afsAssets) = << >>
       /\ \A name \in LookupNames :
            ~Belong(afsAssets, name) /\ asset(afsAssets, name) = None
  /\ (Reloaded /\ Len(assets) = 0) => (ret.err /\ Snapshot = pre)

\* GetAFS has returned its error on the empty registry.
C6_Witness ==
  ret = [op |-> "GetAFS", err |-> TRUE, done |-> TRUE, why |-> "no data"]
    /\ Len(assets) = 0

\* The names of a call of ExecTemplate, normalized.
Named(names) == {fileNameClean(names[i]) : i \in DOMAIN names}

\* What a file of the snapshot can hold after a reload: the decoded payload
\* of a registered descriptor of that name.
Payloads(name) ==
  {Decode(Descriptors[assets[i]]).content :
     i \in {j \in DOMAIN assets : fileNameClean(Descriptors[assets[j]].AName) = name}}

\* The template asset as registered and as rendered with use = true.
TplSource == Str(<< "{", "{", ".", "u", "s", "e", "}", "}" >>)
TplTrue == Str(<< "t", "r", "u", "e" >>)

\* C7: a successful ExecTemplate rewrites the content and size of the named
\* assets only, and leaves the other entries, the keys and the registry as
\* they were; a reload that returns without error leaves every file with the
\* payload decoded from a registered descriptor, whatever was rendered before.
C7_TemplateLiveOnly ==
  [][/\ \A names \in TemplateCalls, use \in BOOLEAN :
          (ExecTemplate(names, use) /\ ~ret'.err) =>
             /\ assets' = assets
             /\ DOMAIN afsAssets' = DOMAIN afsAssets
             /\ \A n \in DOMAIN afsAssets :
                  LET old == Snapshot[n]
                      new == View(afsAssets', heap')[n]
                  IN IF n \in Named(names)
                       THEN /\ new.content = Render(old.content, use).out
                            /\ new.size = Len(new.content)
                            /\ new.isDir = old.isDir /\ new.AName = old.AName
                       ELSE new = old
     /\ ReloadReturn =>
          \A n \in DOMAIN afsAssets' :
             LET new == View(afsAssets', heap')[n]
             IN ~new.isDir =>
                  /\ new.content \in Payloads(n)
                  /\ new.size = Len(new.content)
                  /\ (assets = << "Tpl" >> => new.content = TplSource)]_vars

\* /a.txt was rendered to "true" when the reload was entered, and the reload
\* has returned with the template source in it again.
C7_Witness ==
  /\ ReloadedOk
  /\ NameA \in DOMAIN pre /\ pre[NameA].content = TplTrue
  /\ NameA \in DOMAIN afsAssets /\ Snapshot[NameA].content = TplSource

\* Scenario A's listing.
ScenarioAFiles == << Root, NameA, NameB, NameBC >>

\* C8: Files returns every key of the snapshot once, in ascending order;
\* after a successful reload of {/a.txt, /b/c.txt} it is the listing of
\* scenario A.
C8_FilesSorted ==
  LET f == Files(afsAssets)
  IN /\ {f[i] : i \in DOMAIN f} = DOMAIN afsAssets
     /\ Len(f) = Cardinality(DOMAIN afsAssets)
     /\ \A i, j \in DOMAIN f : i < j => StrLess(f[i], f[j])
     /\ (ReloadedOk /\ assets = << "A", "BC" >>) => f = ScenarioAFiles

\* Scenario A has been reloaded and lists files next to directories.
C8_Witness ==
  /\ ReloadedOk /\ assets = << "A", "BC" >>
  /\ Files(afsAssets) = ScenarioAFiles
  /\ heap[afsAssets[NameB]].isDir /\ ~heap[afsAssets[NameA]].isDir

\* The spellings of /a.txt among the looked-up names.
SpellingsOfA ==
  {NameA, Str(<< "a", ".", "t", "x", "t" >>),
   Str(<< "/", "x", "/", ".", ".", "/", "a", ".", "t", "x", "t" >>)}

\* C9: normalized lookup.  Every spelling of /a.txt belongs exactly when the
\* key /a.txt is in the snapshot and resolves to that key's asset; a name
\* that is a key as spelled belongs; Open gives a handle exactly when the
\* name belongs, and the handle is the asset of the normalized name.
C9_NormalizedLookup ==
  /\ [](/\ \A name \in SpellingsOfA :
             /\ Belong(afsAssets, name) <=> NameA \in DOMAIN afsAssets
             /\ NameA \in DOMAIN afsAssets =>
                  asset(afsAssets, name) = afsAssets[NameA]
        /\ \A name \in LookupNames \ SpellingsOfA :
             Belong(afsAssets, name) <=> name \in DOMAIN afsAssets)
  /\ [][\A slot \in Slots, name \in OpenNames :
          Open(slot, name) =>
             /\ handles'[slot] # None <=> Belong(afsAssets, name)
             /\ handles'[slot] = asset(afsAssets, name)]_vars

\* Both handles of the host are open on /a.txt.
C9_Witness ==
  /\ ReloadedOk
  /\ handles["h1"] # None /\ handles["h1"] = handles["h2"]
  /\ heap[handles["h1"]].AName = NameA
  /\ heap[handles["h1"]].rd.open

\* C10: Readdir on a directory returns the entries below it, at any depth,
\* and nothing else; on a file it returns nothing.
C10_ReaddirSubtree ==
  ReloadedOk =>
    \A n \in DOMAIN afsAssets :
       Readdir(afsAssets, heap, afsAssets[n]) =
         IF heap[afsAssets[n]].isDir
           THEN {m \in DOMAIN afsAssets : n \in Ancestors(m)}
           ELSE {}

\* The normalized form of every name ExecTemplate is called with.
Cleaned ==
  [n \in UNION {{names[k] : k \in DOMAIN names} : names \in TemplateCalls} |->
     fileNameClean(n)]

\* The positions of names at which ExecTemplate finds no asset or a directory.
Rejected(names) ==
  {k \in DOMAIN names :
     \/ Cleaned[names[k]] \notin DOMAIN afsAssets
     \/ heap[afsAssets[Cleaned[names[k]]]].isDir}

\* The names before position k are files whose content renders.
RendersBefore(names, use, k) ==
  \A j \in 1..(k - 1) : Render(heap[afsAssets[Cleaned[names[j]]]].content, use).ok

\* C11: ExecTemplate rejects missing names and directories.  When the first
\* name that is absent from the snapshot or resolves to a directory is reached,
\* the call returns the not-found error for the absent name and the
\* is-directory error for the directory, the keys stay, and the entry under
\* that name, when there is one, keeps its content, size and every other field.
C11_RejectsMissingAndDir ==
  [][ret'.op = "ExecTemplate" =>
       \A names \in TemplateCalls, use \in BOOLEAN :
          (Rejected(names) # {} /\ ExecTemplate(names, use)) =>
             LET k == CHOOSE i \in Rejected(names) : \A j \in Rejected(names) : i <= j
                 n == Cleaned[names[k]]
             IN RendersBefore(names, use, k) =>
                  /\ ret'.err
                  /\ ret'.why = IF n \in DOMAIN afsAssets THEN "asset is dir"
                                ELSE "find asset"
                  /\ DOMAIN afsAssets' = DOMAIN afsAssets
                  /\ n \in DOMAIN afsAssets =>
                       View(afsAssets', heap')[n] = Snapshot[n]]_vars

\* ExecTemplate has refused the synthesized directory /b.
C11_Witness ==
  /\ ret.op = "ExecTemplate" /\ ret.why = "asset is dir"
  /\ NameB \in DOMAIN afsAssets /\ Snapshot[NameB].isDir
  /\ Snapshot[NameB].content = NameB

\* The normalized names of the registered descriptors.
RegisteredNames ==
  {fileNameClean(Descriptors[assets[i]].AName) : i \in DOMAIN assets}

\* C12: uniqueness per normalized name.  After a successful reload every key
\* is a normalized path and the name stored in its asset, no asset sits under
\* two keys, the file entries are exactly the normalized names of the
\* registered descriptors, and each file holds the whole payload of one
\* registered descriptor of that name, with its length as size.
C12_OnePerNormalizedName ==
  ReloadedOk =>
    /\ \A n \in DOMAIN afsAssets :
         /\ fileNameClean(n) = n
         /\ heap[afsAssets[n]].AName = n
         /\ ~heap[afsAssets[n]].isDir =>
              /\ heap[afsAssets[n]].content \in Payloads(n)
              /\ heap[afsAssets[n]].size = Len(heap[afsAssets[n]].content)
    /\ \A n, m \in DOMAIN afsAssets : afsAssets[n] = afsAssets[m] => n = m
    /\ {n \in DOMAIN afsAssets : ~heap[afsAssets[n]].isDir} = RegisteredNames

\* /a.txt and a.txt are both registered, in this order, and the one entry
\* /a.txt holds the payload of the first.
C12_Witness ==
  /\ ReloadedOk
  /\ \E i, j \in DOMAIN assets : i < j /\ assets[i] = "A" /\ assets[j] = "Tpl"
  /\ Cardinality(RegisteredNames) < Len(assets)
  /\ Snapshot[NameA].content = Str(<< "h", "i" >>)

\* C13: codec round trip.  The descriptor makeAsset produces for a file
\* decodes without error to exactly the bytes of the file, with and without
\* compression, and its NoZLib is the negation of the compress flag.
C13_CodecRoundTrip ==
  /\ job.stage \in {"asset", "decoded"} => job.asset.NoZLib = ~job.compress
  /\ job.stage = "decoded" => ~job.out.err /\ job.out.content = job.data

\* A compressed file of the longest length, with a NUL and a high byte, has
\* gone through the generator and the decoder.
C13_Witness ==
  /\ job.stage = "decoded" /\ job.compress
  /\ Len(job.data) = MaxData /\ job.data[1] = 255 /\ job.data[2] = 0
  /\ job.asset.Base64 # B64Encode(job.data)

\* The segments of an absolute path after its leading slash.
Segments(q) == SplitSlash(Tail(q))

\* C14: idempotent normalization.  fileNameClean of any name is absolute, has
\* one leading slash, no empty segment, no "." and no ".." segment (the root is
\* the single slash), and fileNameClean leaves such a result as it is.
C14_CleanIdempotent ==
  /\ job.stage \in {"once", "twice"} =>
       /\ Len(job.q) >= 1 /\ job.q[1] = Slash
       /\ job.q # << Slash >> =>
            \A i \in DOMAIN Segments(job.q) :
               /\ Segments(job.q)[i] # << >>
               /\ Segments(job.q)[i] # << Dot >>
               /\ Segments(job.q)[i] # << Dot, Dot >>
  /\ job.stage = "twice" => job.r = job.q

\* The relative name a/.. with nothing left after cleaning was normalized
\* twice and is the root.
C14_Witness ==
  /\ job.stage = "twice"
  /\ job.p = << Ascii["a"], Slash, Dot, Dot >>
  /\ job.r = << Slash >>

\* Every spawned decode goroutine has delivered its result.
AllDelivered ==
  /\ spawned = Len(assets)
  /\ \A i \in DOMAIN task : task[i] = "done"

\* C15 as stated: the channel is closed and the fill-dirs loop runs only
\* after every decode goroutine has delivered, and after a successful reload
\* every registered descriptor has a file entry under its normalized name
\* that holds the payload decoded from that descriptor.
C15_OwnPayloadEach ==
  /\ (closed \/ pc = "dirs") => AllDelivered
  /\ ReloadedOk =>
       \A i \in DOMAIN assets :
          LET d == Decode(Descriptors[assets[i]])
          IN /\ d.AName \in DOMAIN afsAssets
             /\ ~Snapshot[d.AName].isDir
             /\ Snapshot[d.AName].content = d.content
             /\ Snapshot[d.AName].size = Len(d.content)

\* C15: join before finalize.  The channel is closed and the fill-dirs loop
\* runs only after every decode goroutine has delivered, and from then on and
\* after the successful return every registered descriptor has a file entry
\* under its normalized name whose content is the payload decoded from it or
\* from another registered descriptor that normalizes to the same name, and
\* whose size is the length of that content.
C15_JoinBeforeFinalize ==
  /\ (closed \/ pc = "dirs") => AllDelivered
  /\ (closed \/ pc = "dirs" \/ ReloadedOk) =>
       \A i \in DOMAIN assets :
          LET d == Decode(Descriptors[assets[i]])
          IN /\ d.AName \in DOMAIN afsAssets
             /\ ~Snapshot[d.AName].isDir
             /\ Snapshot[d.AName].content \in Payloads(d.AName)
             /\ Snapshot[d.AName].size = Len(Snapshot[d.AName].content)
             /\ Cardinality(Payloads(d.AName)) = 1 =>
                  Snapshot[d.AName].content = d.content

\* The fill-dirs loop runs on a snapshot that holds the three files of a
\* registry of three descriptors with different names.
C15_Witness ==
  /\ pc = "dirs" /\ AllDelivered
  /\ Len(assets) = 3 /\ Cardinality(RegisteredNames) = 3
  /\ RegisteredNames \subseteq DOMAIN afsAssets

\* C16: every decode task finishes.  Once reload has returned, with or
\* without an error, no decode goroutine it spawned is left at its send on
\* the result channel, which nobody receives from any more.
C16_NoTaskLeftBlocked ==
  pc = "idle" => orphans = 0

\* A step of GetAFS, Add or the reload either of them runs.
ReloadStep ==
  \/ GetAFS
  \/ \E i \in 1..Len(Pool) : Add(i)
  \/ Spawn
  \/ \E i \in 1..MaxAssets : Recv(i)
  \/ Close
  \/ RangeDone
  \/ \E k \in iter, visit \in BOOLEAN : FillDir(k, visit)
  \/ ReloadReturn

\* C17: handles survive reload.  A handle always refers to an object; no step
\* of a reload changes which object a handle refers to, nor that object's
\* content, size, directory flag or read position; and after a successful
\* reload the objects of the new snapshot are none of those a handle got from
\* an earlier snapshot.
C17_HandlesSurviveReload ==
  /\ [](\A slot \in Slots : handles[slot] # None => handles[slot] \in DOMAIN heap)
  /\ [][ReloadStep =>
          \A slot \in Slots :
             handles[slot] # None =>
                /\ handles'[slot] = handles[slot]
                /\ heap'[handles[slot]] = heap[handles[slot]]]_vars
  /\ [](ReloadedOk =>
          \A slot \in Slots :
             (handles[slot] # None /\ handles[slot].gen # gen) =>
                handles[slot] \notin Range(afsAssets))

\* The host holds /a.txt, read up to its end, from the snapshot before the
\* last successful reload, which has its own /a.txt.
C17_Witness ==
  /\ ReloadedOk
  /\ handles["h1"] # None /\ handles["h1"].gen # gen
  /\ handles["h1"] \notin Range(afsAssets)
  /\ heap[handles["h1"]].AName = NameA
  /\ heap[handles["h1"]].rd.open /\ heap[handles["h1"]].rd.i = 2
  /\ NameA \in DOMAIN afsAssets /\ ~heap[afsAssets[NameA]].rd.open

\* The registry regs holds a descriptor whose decode goroutine sends an error.
PoisonedIn(regs) == \E i \in DOMAIN regs : Decode(Descriptors[regs[i]]).err

Poisoned == PoisonedIn(assets)

\* C18: poisoned registry.  Every step keeps what is registered and only
\* appends to it, so a descriptor that fails to decode stays registered; and
\* while one is registered every GetAFS and every Add that has returned has
\* returned an error, whatever was added after it.
C18_PoisonedRegistry ==
  /\ [][/\ Len(assets') >= Len(assets)
        /\ SubSeq(assets', 1, Len(assets)) = assets
        /\ Poisoned => PoisonedIn(assets')]_vars
  /\ []((Poisoned /\ Reloaded) => (ret.err /\ ret.why = "decode"))

\* Add of a valid descriptor has returned an error after a GetAFS on a
\* registry with a corrupt one.
C18_Witness ==
  /\ ret.op = "Add" /\ ret.done /\ ret.err
  /\ Len(assets) >= 2
  /\ ~Decode(Descriptors[assets[Len(assets)]]).err
  /\ Decode(Descriptors[assets[1]]).err
  /\ created

\* C19: reload terminates.  The lock is held exactly while a reload runs, and
\* every reload that has taken the lock returns and releases it, whatever
\* the registry holds and however its goroutines are scheduled.
C19_ReloadReturns ==
  /\ [](mu <=> pc # "idle")
  /\ (mu ~> (~mu /\ ret.done))

\* A reload has returned its error and released the lock while a decode
\* goroutine of it had not delivered.
C19_Witness ==
  /\ Reloaded /\ ret.why = "decode"
  /\ ~mu /\ pc = "idle"
  /\ orphans > 0
  /\ Len(assets) = MaxAssets

\* The positions of names at which ExecTemplate returns an error when it gets
\* there: no asset, a directory, or a content that does not parse or execute.
Failing(names, use) ==
  Rejected(names) \cup
    {k \in DOMAIN names \ Rejected(names) :
       ~Render(heap[afsAssets[Cleaned[names[k]]]].content, use).ok}

\* C20: ExecTemplate is not atomic over its name list.  When it returns an
\* error, it is at the first position k whose name fails; the assets named
\* before k hold the rendered content and its length, and every other entry,
\* the k-th and the later ones included, is as it was.
C20_PrefixRendered ==
  [][ret'.op = "ExecTemplate" =>
       \A names \in TemplateCalls, use \in BOOLEAN :
          (ret'.err /\ ExecTemplate(names, use)) =>
             /\ Failing(names, use) # {}
             /\ afsAssets' = afsAssets
             /\ LET k == CHOOSE i \in Failing(names, use) :
                            \A j \in Failing(names, use) : i <= j
                IN \A n \in DOMAIN afsAssets :
                      LET old == heap[afsAssets[n]]
                          new == heap'[afsAssets[n]]
                      IN IF \E j \in 1..(k - 1) : Cleaned[names[j]] = n
                           THEN new = [old EXCEPT
                                         !.content = Render(old.content, use).out,
                                         !.size = Len(Render(old.content, use).out)]
                           ELSE new = old]_vars

\* ExecTemplate has returned the parse error of /a/e/f after rendering
\* /a.txt, which it was given first.
C20_Witness ==
  /\ ret.op = "ExecTemplate" /\ ret.why = "parse"
  /\ NameA \in DOMAIN afsAssets /\ Snapshot[NameA].content = TplTrue
  /\ Snapshot[NameA].size = 4
  /\ NameDeep \in DOMAIN afsAssets /\ Snapshot[NameDeep].content = LeftDelim

====
